---------------------------- MODULE Spec2Model ----------------------------
(***************************************************************************)
(* TripSplit: the split engine, the balance calculator and the offline     *)
(* mutation synchronisation engine (local Dexie store, mutation queue,     *)
(* drain loop, hydration from the remote change feed).                     *)
(*                                                                         *)
(* Money.  The source keeps amounts as JavaScript numbers in currency      *)
(* units and converts to integer cents with toCents (Math.round(a * 100)). *)
(* Here an amount is an integer count of 1/SubCent of a cent, so that      *)
(* amounts that are no whole number of cents exist and toCents really      *)
(* rounds.  Arithmetic on amounts is exact (real) arithmetic.              *)
(***************************************************************************)
EXTENDS Integers, Sequences, FiniteSets, TLC

\* ------------------------------------------------------------------ bounds
SubCent == 2            \* amount units per cent (resolution of an amount)
MaxCents == 1           \* largest expense amount, in cents, a user enters
MaxUuid == 2            \* UUIDs generateUUID hands to the mutation service
MaxClock == 0           \* Date.now() reads 0..MaxClock
MaxRemoteOps == 2       \* writes other devices make to the remote store
MaxFailures == 2        \* failing remote responses in the fair specification
MaxTotal == 7           \* split engine: largest totalAmount, in amount units
MaxShares == 2          \* split engine: largest weight of a member
MaxBalanceItems == 2    \* balance calculator: longest expense / split list
MaxBalance == 8         \* settlement: largest balance, in 1/SubCent of a cent
MaxSeqClock == 3        \* sequence generator: Date.now() reads 0..MaxSeqClock
MaxSeqCalls == 3        \* sequence generator: calls of getSequenceNumber
MaxChanges == 2         \* useCalculations: renders with new inputs
MaxWorkerErrors == 1    \* useCalculations: error events of the worker
MaxStreak == 6          \* drain loop: transient failures counted in a row

\* ------------------------------------------------------------- small helpers
Abs(x) == IF x < 0 THEN -x ELSE x

Min(a, b) == IF a < b THEN a ELSE b

Max(a, b) == IF a > b THEN a ELSE b

RECURSIVE SeqSum(_)
SeqSum(s) == IF s = <<>> THEN 0 ELSE Head(s) + SeqSum(Tail(s))

RECURSIVE SetSum(_, _)
\* sum of f[x] over the finite set S
SetSum(f, S) ==
    IF S = {} THEN 0
    ELSE LET x == CHOOSE y \in S : TRUE IN f[x] + SetSum(f, S \ {x})

Range(s) == {s[i] : i \in 1..Len(s)}

\* JavaScript a % b for b > 0: the sign follows the dividend
JsRem(a, b) == IF a >= 0 THEN a % b ELSE -((-a) % b)

\* ------------------------------------------------------------ currency.ts
\* Math.round(amount * PRECISION): nearest cent, halves towards +infinity
toCents(amount) == (2 * amount + SubCent) \div (2 * SubCent)

fromCents(cents) == cents * SubCent

\* distributeAmount handing the remainder to the last participants
distributeAmountFromEnd(totalAmount, count) ==
    IF count <= 0 THEN <<>>
    ELSE LET totalCents == toCents(totalAmount)
             baseShare == totalCents \div count
             remainder == JsRem(totalCents, count)
         IN [i \in 1..count |->
                fromCents(baseShare + (IF count - i < remainder THEN 1 ELSE 0))]

distributeAmount(totalAmount, count) ==
    IF count <= 0 THEN <<>>
    ELSE LET totalCents == toCents(totalAmount)
             baseShare == totalCents \div count
             remainder == JsRem(totalCents, count)
         IN [i \in 1..count |->
                fromCents(baseShare + (IF i - 1 < remainder THEN 1 ELSE 0))]

validateTotal(total, splitAmounts) ==
    LET totalCents == toCents(total)
        splitsCents == SeqSum([i \in 1..Len(splitAmounts) |-> toCents(splitAmounts[i])])
    IN totalCents = splitsCents

\* ----------------------------------------------------------- splitEngine.ts
\* A customSplits entry is [memberId, amount, shares]; a field the caller
\* leaves undefined is 0 here, which is what the source's (x || 0) makes of it.
\* A result is [ok |-> TRUE, splits, remainder] or, for a throw,
\* [ok |-> FALSE, splits |-> <<>>, remainder |-> 0, error].
SplitError(msg) == [ok |-> FALSE, splits |-> <<>>, remainder |-> 0, error |-> msg]

calculateEqualSplits(totalAmount, memberIds) ==
    LET count == Len(memberIds)
        amounts == distributeAmount(totalAmount, count)
    IN [ok |-> TRUE,
        splits |-> [i \in 1..count |->
                      [member_id |-> memberIds[i], amount |-> amounts[i], shares |-> 0]],
        remainder |-> 0,
        error |-> ""]

\* calculateShareSplits that keeps the members of weight zero
calculateShareSplitsKeeping(totalAmount, shareData) ==
    LET totalShares == SeqSum([i \in 1..Len(shareData) |-> shareData[i].shares])
    IN IF totalShares <= 0 THEN SplitError("Total shares must be greater than zero")
       ELSE
         LET totalCents == toCents(totalAmount)
             n == Len(shareData)
             raw == [i \in 1..n |-> (shareData[i].shares * totalCents) \div totalShares]
             remainder == totalCents - SeqSum(raw)
             extra(i) == Cardinality({k \in 0..(remainder - 1) : k % n = i - 1})
         IN [ok |-> TRUE,
             splits |-> [i \in 1..n |->
                           [member_id |-> shareData[i].memberId,
                            amount |-> fromCents(raw[i] + extra(i)),
                            shares |-> shareData[i].shares]],
             remainder |-> 0,
             error |-> ""]

calculateShareSplits(totalAmount, shareData) ==
    LET validShares == SelectSeq(shareData, LAMBDA s : s.shares > 0)
        totalShares == SeqSum([i \in 1..Len(validShares) |-> validShares[i].shares])
    IN IF totalShares <= 0 THEN SplitError("Total shares must be greater than zero")
       ELSE
         LET totalCents == toCents(totalAmount)
             n == Len(validShares)
             raw == [i \in 1..n |-> (validShares[i].shares * totalCents) \div totalShares]
             distributedCents == SeqSum(raw)
             remainder == totalCents - distributedCents
             \* for (i = 0; i < remainder; i++) splits[i % n].amount += 1
             extra(i) == Cardinality({k \in 0..(remainder - 1) : k % n = i - 1})
         IN [ok |-> TRUE,
             splits |-> [i \in 1..n |->
                           [member_id |-> validShares[i].memberId,
                            amount |-> fromCents(raw[i] + extra(i)),
                            shares |-> validShares[i].shares]],
             remainder |-> 0,
             error |-> ""]

calculateCustomSplits(totalAmount, customData) ==
    LET splits == [i \in 1..Len(customData) |->
                     [member_id |-> customData[i].memberId,
                      amount |-> customData[i].amount,
                      shares |-> 0]]
    IN IF ~validateTotal(totalAmount, [i \in 1..Len(splits) |-> splits[i].amount])
       THEN SplitError("Custom split amounts do not equal total amount")
       ELSE [ok |-> TRUE, splits |-> splits, remainder |-> 0, error |-> ""]

\* input: [totalAmount, splitType, involvedMemberIds, customSplits]
calculateSplits(input) ==
    IF input.totalAmount <= 0
    THEN SplitError("Total amount must be greater than zero")
    ELSE IF Len(input.involvedMemberIds) = 0
    THEN SplitError("At least one member must be involved in the split")
    ELSE CASE input.splitType = "equal" ->
                calculateEqualSplits(input.totalAmount, input.involvedMemberIds)
           [] input.splitType = "shares" ->
                IF Len(input.customSplits) = 0
                THEN SplitError("Shares data required")
                ELSE calculateShareSplits(input.totalAmount, input.customSplits)
           [] input.splitType = "custom" ->
                IF Len(input.customSplits) = 0
                THEN SplitError("Custom amounts required")
                ELSE calculateCustomSplits(input.totalAmount, input.customSplits)
           [] OTHER -> SplitError("Unsupported split type")

\* ------------------------------------------------------ balanceCalculator.ts
\* A Balance is a function from member ids to numbers.  The legacy fallback
\* divides an amount by the roster size; to stay in the integers every value
\* of the returned map is counted in 1/BalanceScale(members) of an amount unit.
BalanceScale(members) == Max(1, Len(members))

Put(f, k, v) == [x \in (DOMAIN f) \cup {k} |-> IF x = k THEN v ELSE f[x]]

\* a lookup that is not keyed by expense: every record counts for every expense
ExpenseSplitsMapUnkeyed(splits, expenseId) ==
    LET idx == 1..Len(splits)
        ms == {splits[i].member_id : i \in idx}
        last(m) == CHOOSE i \in idx : /\ splits[i].member_id = m
                                      /\ \A j \in idx : splits[j].member_id = m => j <= i
    IN [m \in ms |-> splits[last(m)].amount]

\* splitsMap.get(expenseId): member_id -> amount; Map.set keeps the last record
ExpenseSplitsMap(splits, expenseId) ==
    LET idx == {i \in 1..Len(splits) : splits[i].expense_id = expenseId}
        ms == {splits[i].member_id : i \in idx}
        last(m) == CHOOSE i \in idx : /\ splits[i].member_id = m
                                      /\ \A j \in idx : splits[j].member_id = m => j <= i
    IN [m \in ms |-> splits[last(m)].amount]

RECURSIVE DebitAll(_, _, _)
\* expenseSplits.forEach: balances[memberId] -= splitAmount (or = -splitAmount)
DebitAll(balances, expenseSplits, todo) ==
    IF todo = {} THEN balances
    ELSE LET m == CHOOSE x \in todo : TRUE
             old == IF m \in DOMAIN balances THEN balances[m] ELSE 0
         IN DebitAll(Put(balances, m, old - expenseSplits[m]), expenseSplits, todo \ {m})

RECURSIVE DebitRoster(_, _, _)
\* memberIds.forEach(memberId => balances[memberId] -= splitAmount)
DebitRoster(balances, memberIds, splitAmount) ==
    IF memberIds = <<>> THEN balances
    ELSE DebitRoster(Put(balances, Head(memberIds), balances[Head(memberIds)] - splitAmount),
                     Tail(memberIds), splitAmount)

RECURSIVE BalanceFold(_, _, _, _)
BalanceFold(balances, expenses, memberIds, splits) ==
    IF expenses = <<>> THEN balances
    ELSE
      LET expense == Head(expenses)
          scale == BalanceScale(memberIds)
          payerId == expense.paid_by
          amount == expense.amount
          credited == IF payerId \in DOMAIN balances
                      THEN Put(balances, payerId, balances[payerId] + amount * scale)
                      ELSE Put(balances, payerId, amount * scale)
          expenseSplits == ExpenseSplitsMap(splits, expense.id)
          scaledSplits == [m \in DOMAIN expenseSplits |-> expenseSplits[m] * scale]
          debited ==
            IF DOMAIN expenseSplits # {}
            THEN DebitAll(credited, scaledSplits, DOMAIN scaledSplits)
            ELSE IF expense.split_type = "equal" /\ Len(memberIds) > 0
            \* amount / memberIds.length, in 1/scale units
            THEN DebitRoster(credited, memberIds, amount)
            ELSE credited
      IN BalanceFold(debited, Tail(expenses), memberIds, splits)

\* expenses: sequence of [id, paid_by, amount, split_type]; members: sequence
\* of member ids; splits: sequence of [expense_id, member_id, amount]
calculateBalances(expenses, members, splits) ==
    BalanceFold([id \in Range(members) |-> 0], expenses, members, splits)

\* calculateSummary(expenses, members, splits)
calculateSummary(expenses, members, splits) ==
    LET isMajor(e) == e.type = "major"
        isDaily(e) == e.type = "daily"
        majorExpenses == SelectSeq(expenses, isMajor)
        dailyExpenses == SelectSeq(expenses, isDaily)
        inMajor(sp) == \E i \in 1..Len(majorExpenses) : majorExpenses[i].id = sp.expense_id
        inDaily(sp) == \E i \in 1..Len(dailyExpenses) : dailyExpenses[i].id = sp.expense_id
    IN [globalBalance |-> calculateBalances(expenses, members, splits),
        majorBalance |-> calculateBalances(majorExpenses, members, SelectSeq(splits, inMajor)),
        dailyBalance |-> calculateBalances(dailyExpenses, members, SelectSeq(splits, inDaily)),
        totalSpent |-> SeqSum([i \in 1..Len(expenses) |-> expenses[i].amount])]

\* ------------------------------------------------------------ settlement.ts
\* const EPSILON = 0.01: one cent
EPSILON == fromCents(1)

isZero(value) == Abs(value) < EPSILON

RECURSIVE InsertByKey(_, _)
InsertByKey(x, s) ==
    IF s = <<>> THEN <<x>>
    ELSE IF x.key < Head(s).key THEN <<x>> \o s
    ELSE <<Head(s)>> \o InsertByKey(x, Tail(s))

RECURSIVE SortByKey(_)
\* Array.prototype.sort with a comparator on numbers: ascending by key, stable
SortByKey(s) ==
    IF s = <<>> THEN <<>>
    ELSE InsertByKey(s[Len(s)], SortByKey(SubSeq(s, 1, Len(s) - 1)))

Unkeyed(s) == [k \in 1..Len(s) |-> [id |-> s[k].id, amount |-> s[k].amount]]

\* debtors.sort((a, b) => a.amount - b.amount)
SortDebtors(s) ==
    Unkeyed(SortByKey([k \in 1..Len(s) |->
                        [id |-> s[k].id, amount |-> s[k].amount, key |-> s[k].amount]]))

\* creditors.sort((a, b) => b.amount - a.amount)
SortCreditors(s) ==
    Unkeyed(SortByKey([k \in 1..Len(s) |->
                        [id |-> s[k].id, amount |-> s[k].amount, key |-> -s[k].amount]]))

\* transactions.sort((a, b) => b.amount - a.amount)
SortTransactions(s) ==
    LET sorted == SortByKey([k \in 1..Len(s) |->
                     [from |-> s[k].from, to |-> s[k].to, amount |-> s[k].amount,
                      key |-> -s[k].amount]])
    IN [k \in 1..Len(sorted) |->
          [from |-> sorted[k].from, to |-> sorted[k].to, amount |-> sorted[k].amount]]

RECURSIVE MatchLoopByCent(_, _, _, _, _, _)
\* the loop moving one cent at most in each iteration
MatchLoopByCent(debtors, creditors, i, j, transactions, iterations) ==
    IF ~(i <= Len(debtors) /\ j <= Len(creditors))
    THEN [transactions |-> transactions, iterations |-> iterations, i |-> i, j |-> j]
    ELSE
      LET debtor == debtors[i]
          creditor == creditors[j]
          transferAmount == Min(EPSILON, Min(Abs(debtor.amount), creditor.amount))
          debtorLeft == debtor.amount + transferAmount
          creditorLeft == creditor.amount - transferAmount
      IN MatchLoopByCent([debtors EXCEPT ![i].amount = debtorLeft],
                         [creditors EXCEPT ![j].amount = creditorLeft],
                         IF isZero(debtorLeft) THEN i + 1 ELSE i,
                         IF isZero(creditorLeft) THEN j + 1 ELSE j,
                         transactions, Append(iterations, <<i, j>>))

RECURSIVE MatchLoop(_, _, _, _, _, _)
\* while (i < debtors.length && j < creditors.length); i and j count from 1
\* here.  iterations: the pointers <<i, j>> each iteration started from.
\* [transactions, iterations, i, j] when the loop exits
MatchLoop(debtors, creditors, i, j, transactions, iterations) ==
    IF ~(i <= Len(debtors) /\ j <= Len(creditors))
    THEN [transactions |-> transactions, iterations |-> iterations, i |-> i, j |-> j]
    ELSE
      LET debtor == debtors[i]
          creditor == creditors[j]
          transferAmount == Min(Abs(debtor.amount), creditor.amount)
          pushed == IF transferAmount > EPSILON
                    THEN Append(transactions,
                                [from |-> debtor.id, to |-> creditor.id,
                                 \* Math.round(transferAmount * 100) / 100
                                 amount |-> fromCents(toCents(transferAmount))])
                    ELSE transactions
          debtorLeft == debtor.amount + transferAmount
          creditorLeft == creditor.amount - transferAmount
      IN MatchLoop([debtors EXCEPT ![i].amount = debtorLeft],
                   [creditors EXCEPT ![j].amount = creditorLeft],
                   IF isZero(debtorLeft) THEN i + 1 ELSE i,
                   IF isZero(creditorLeft) THEN j + 1 ELSE j,
                   pushed, Append(iterations, <<i, j>>))

\* balances: Object.entries(balances), a sequence of [id, amount]
settlementMatch(balances) ==
    LET debtors == SelectSeq(balances, LAMBDA b : b.amount < -EPSILON)
        creditors == SelectSeq(balances, LAMBDA b : b.amount > EPSILON)
    IN MatchLoop(SortDebtors(debtors), SortCreditors(creditors), 1, 1, <<>>, <<>>)

calculateSettlements(balances) == SortTransactions(settlementMatch(balances).transactions)

\* ================================================================== state
VARIABLES
    expenses,        \* localDb.expenses: id -> [amount, split_type, sync_status]
    splits,          \* localDb.splits: set of [id, expense_id, member_id, amount]
    mutations,       \* localDb.mutations: set of LocalMutation records
    remoteExpenses,  \* Firestore trips/t/expenses: set of [docId, data]
    remoteSplits,    \* Firestore .../expenses/e/splits: set of [docId, parent, data]
    remoteOps,       \* writes other devices have made to the remote store
    failures,        \* failing remote responses so far (fair specification)
    lastSequence,    \* syncUtils lastSequence
    uuid,            \* UUIDs generateUUID has handed out
    syncTimeout,     \* SyncService.syncTimeout: Null or a timer handle
    backoffDelay,    \* SyncService.backoffDelay
    isSyncing,       \* SyncService.isSyncing
    pass,            \* position of the processQueue call in flight
    unsubscribes,    \* SyncService.unsubscribes: trips with a listener
    listeners,       \* onSnapshot listeners registered and not unsubscribed
    seen,            \* the remote documents the listener has been told of
    hyd,             \* position of the onSnapshot callback in flight
    applied,         \* history: the mutations the remote store has committed
    reapplied,       \* history: the mutations it has committed more than once
    failedPasses,    \* history (backoff specification): passes in a row that
                     \* ended in a transient failure
    failedSince,     \* history (backoff specification): transient failures since
                     \* the last successful application
    seInput,         \* split engine check: the input of calculateSplits
    seResult,        \* split engine check: its result
    balInput,        \* balance check: the input of calculateBalances
    balResult,       \* balance check: its result
    stInput,         \* settlement check: the input of calculateSettlements
    stResult,        \* settlement check: its result
    seqLog,          \* sequence check: the [now, value] of each getSequenceNumber call
    ucPhase,         \* useCalculations: "unmounted" or "mounted"
    ucProps,         \* useCalculations: the expenses, members, splits of the last render
    ucChanges,       \* useCalculations: the renders with new inputs so far
    workerRef,       \* useCalculations workerRef.current: "null" or "worker"
    useWorkerRef,    \* useCalculations useWorkerRef.current
    summary,         \* useCalculations state: summary
    settlements,     \* useCalculations state: settlements
    isCalculating,   \* useCalculations state: isCalculating
    toWorker,        \* CALCULATE messages posted and not yet handled by the worker,
                     \* each with the RESULT the worker computes from it
    fromWorker,      \* RESULT messages posted and not yet handled by onmessage
    workerErrors,    \* error events the worker has raised
    expected,        \* history: calculateSummary and calculateSettlements of ucProps
    answered         \* history: the hook has held `expected` since the render
                     \* that brought ucProps

storeVars == <<expenses, splits, mutations>>
remoteVars == <<remoteExpenses, remoteSplits, remoteOps, failures>>
logVars == <<applied, reapplied>>
streakVars == <<failedPasses, failedSince>>
histVars == <<logVars, streakVars>>
idVars == <<lastSequence, uuid>>
loopVars == <<syncTimeout, backoffDelay, isSyncing, pass>>
hydVars == <<unsubscribes, listeners, seen, hyd>>
calcVars == <<ucPhase, ucProps, ucChanges, workerRef, useWorkerRef, summary, settlements,
              isCalculating, toWorker, fromWorker, workerErrors, expected, answered>>
auxVars == <<seqLog, calcVars>>
pureVars == <<seInput, seResult, balInput, balResult, stInput, stResult, auxVars>>
syncVars == <<storeVars, remoteVars, histVars, idVars, loopVars, hydVars>>
vars == <<syncVars, pureVars>>

\* ------------------------------------------------------------ config/flags
\* The flag is imported from config/flags, which is not among the sources.
\* The engine is modelled switched on: with the flag off no mutation is ever
\* queued and neither the drain loop nor hydration starts.
SYNC_AUTHORITY_ENABLED == TRUE

\* --------------------------------------------------------------- the inputs
Members == <<"A", "B">>
TripId == "t1"
ForeignIds == {0}                      \* ids of expenses other devices create
Clock == 0..MaxClock
InputAmounts == {fromCents(c) : c \in 1..MaxCents}
SplitTypes == {"equal", "shares", "custom"}
\* custom_splits a caller passes: none, or one entry of one cent for each of
\* the first k members
CustomSplitInputs ==
    {[i \in 1..k |-> [member_id |-> Members[i], amount |-> fromCents(1)]] :
        k \in 0..Len(Members)}

Null == [state |-> "null", delay |-> 0]
Timer(delay) == [state |-> "armed", delay |-> delay]
Fired == [state |-> "fired", delay |-> 0]       \* the handle of a timer that has run
IdlePass == [phase |-> "idle", queue |-> <<>>, idx |-> 0]
IdleHyd == [phase |-> "idle", type |-> "none", id |-> 0, amount |-> 0, split_type |-> "",
            pending |-> FALSE]

\* ------------------------------------------------------------- syncUtils.ts
\* the generator comparing with < where the source has <=
getSequenceNumberStrict(now, last) == IF now < last THEN last + 1 ELSE now

\* getSequenceNumber with Date.now() = now: the new value of lastSequence,
\* which is also the value returned
getSequenceNumber(now, last) == IF now <= last THEN last + 1 ELSE now

\* ---------------------------------------------------------- Dexie tables
\* Table.update(key, changes): no record with the key, nothing happens
ExpenseUpdate(tbl, id, status) ==
    IF id \in DOMAIN tbl THEN [tbl EXCEPT ![id].sync_status = status] ELSE tbl

ExpenseDelete(tbl, id) == [x \in (DOMAIN tbl) \ {id} |-> tbl[x]]

SplitsOf(tbl, expenseId) == {s \in tbl : s.expense_id = expenseId}

MutationsFor(tbl, entityId) == {m \in tbl : m.entity_id = entityId}

\* mutations.orderBy('client_sequence_number').toArray(): by the index, ties
\* by primary key
RECURSIVE OrderBySequence(_)
OrderBySequence(tbl) ==
    IF tbl = {} THEN <<>>
    ELSE LET first == CHOOSE m \in tbl : \A o \in tbl :
                         \/ m.client_sequence_number < o.client_sequence_number
                         \/ /\ m.client_sequence_number = o.client_sequence_number
                            /\ m.mutation_id <= o.mutation_id
         IN <<first>> \o OrderBySequence(tbl \ {first})

\* ------------------------------------------------------------- Firestore
\* addDoc(coll, data): a new document under an id of the store's choosing
RemoteAdd(coll, docId, doc) ==
    coll \cup {[doc EXCEPT !.docId = <<docId, Cardinality(coll)>>]}

\* batch.set(doc(coll, docId), data): one document per id, the last data wins
RemoteSet(coll, docId, doc) == {d \in coll : d.docId # docId} \cup {doc}

RemoteDelete(coll, docId) == {d \in coll : d.docId # docId}

RemoteHas(coll, docId) == \E d \in coll : d.docId = docId

\* ------------------------------------------------------ mutationService.ts
\* Only what the modelled code reads of an expense is kept: amount,
\* split_type and sync_status (description, category, paid_by, dates are
\* copied through unchanged by every operation).  A split's id stands for its
\* generateUUID() value: <<expense id, position>>, made once, at creation.
Store == [expenses |-> expenses, splits |-> splits, mutations |-> mutations]

NewMutation(mutation_id, entity_id, action, payload, seq) ==
    [mutation_id |-> mutation_id, entity_type |-> "expense", entity_id |-> entity_id,
     action |-> action, payload |-> payload, client_sequence_number |-> seq,
     sync_status |-> "pending"]

CustomSplitTotal(custom_splits) ==
    SeqSum([i \in 1..Len(custom_splits) |-> custom_splits[i].amount])

\* step 1 of createExpense; FALSE is the throw.  0.01 is one cent.
createExpenseValid(input) ==
    ~ (/\ input.split_type \in {"custom", "shares"}
       /\ Abs(CustomSplitTotal(input.custom_splits) - input.amount) > fromCents(1))

\* the localDb.transaction of createExpense
createExpenseTx(store, input, mutation_id, seq) ==
    LET expense_id == mutation_id
        expenseData == [id |-> expense_id, amount |-> input.amount,
                        split_type |-> input.split_type, sync_status |-> "pending"]
        localSplits ==
            IF input.split_type \in {"custom", "shares"}
            THEN [i \in 1..Len(input.custom_splits) |->
                    [id |-> <<expense_id, i>>, expense_id |-> expense_id,
                     member_id |-> input.custom_splits[i].member_id,
                     amount |-> input.custom_splits[i].amount]]
            ELSE <<>>
    IN [expenses |-> Put(store.expenses, expense_id,
                         [amount |-> expenseData.amount,
                          split_type |-> expenseData.split_type,
                          sync_status |-> expenseData.sync_status]),
        splits |-> store.splits \cup Range(localSplits),
        mutations |-> store.mutations \cup
            {NewMutation(mutation_id, expense_id, "create",
                         [expense |-> expenseData, splits |-> localSplits], seq)}]

\* the localDb.transaction of updateExpense
updateExpenseTx(store, expenseId, updates, mutation_id, seq) ==
    [expenses |-> IF expenseId \in DOMAIN store.expenses
                  THEN [store.expenses EXCEPT ![expenseId].amount = updates.amount,
                                              ![expenseId].sync_status = "pending"]
                  ELSE store.expenses,
     splits |-> store.splits,
     mutations |-> store.mutations \cup
         {NewMutation(mutation_id, expenseId, "update", updates, seq)}]

\* deleteExpense whose queue write is made outside the transaction, and lost
deleteExpenseTxUnqueued(store, expenseId, mutation_id, seq) ==
    [expenses |-> ExpenseDelete(store.expenses, expenseId),
     splits |-> store.splits \ SplitsOf(store.splits, expenseId),
     mutations |-> store.mutations]

\* the localDb.transaction of deleteExpense
deleteExpenseTx(store, expenseId, mutation_id, seq) ==
    [expenses |-> ExpenseDelete(store.expenses, expenseId),
     splits |-> store.splits \ SplitsOf(store.splits, expenseId),
     mutations |-> store.mutations \cup
         {NewMutation(mutation_id, expenseId, "delete", [expenseId |-> expenseId], seq)}]

Commit(store) ==
    /\ expenses' = store.expenses
    /\ splits' = store.splits
    /\ mutations' = store.mutations

CreateExpenseOf(amounts, types, customs) ==
    /\ SYNC_AUTHORITY_ENABLED
    /\ uuid < MaxUuid
    /\ \E amount \in amounts, split_type \in types, custom_splits \in customs,
          now \in Clock :
         LET input == [amount |-> amount, split_type |-> split_type,
                       custom_splits |-> custom_splits]
             seq == getSequenceNumber(now, lastSequence)
         IN /\ split_type = "equal" => custom_splits = <<>>
            /\ uuid' = uuid + 1
            /\ IF createExpenseValid(input)
               THEN /\ Commit(createExpenseTx(Store, input, uuid + 1, seq))
                    /\ lastSequence' = seq
               ELSE UNCHANGED <<storeVars, lastSequence>>
    /\ UNCHANGED <<remoteVars, loopVars, hydVars, pureVars, histVars>>

CreateExpense == CreateExpenseOf(InputAmounts, SplitTypes, CustomSplitInputs)

\* one caller: one cent, paid back by A alone
CreateCustomExpense ==
    CreateExpenseOf({fromCents(1)}, {"custom"},
                    {<<[member_id |-> Members[1], amount |-> fromCents(1)]>>})

UpdateExpenseOf(amounts) ==
    /\ SYNC_AUTHORITY_ENABLED
    /\ uuid < MaxUuid
    /\ \E expenseId \in DOMAIN expenses, amount \in amounts, now \in Clock :
         LET seq == getSequenceNumber(now, lastSequence)
         IN /\ uuid' = uuid + 1
            /\ Commit(updateExpenseTx(Store, expenseId, [amount |-> amount], uuid + 1, seq))
            /\ lastSequence' = seq
    /\ UNCHANGED <<remoteVars, loopVars, hydVars, pureVars, histVars>>

UpdateExpense == UpdateExpenseOf(InputAmounts)

UpdateToTwoCents == UpdateExpenseOf({fromCents(2)})

DeleteExpense ==
    /\ SYNC_AUTHORITY_ENABLED
    /\ uuid < MaxUuid
    /\ \E expenseId \in DOMAIN expenses, now \in Clock :
         LET seq == getSequenceNumber(now, lastSequence)
         IN /\ uuid' = uuid + 1
            /\ Commit(deleteExpenseTx(Store, expenseId, uuid + 1, seq))
            /\ lastSequence' = seq
    /\ UNCHANGED <<remoteVars, loopVars, hydVars, pureVars, histVars>>

\* ---------------------------------------------------------- syncService.ts
\* What the remote store answers to a commit.
Responses == {"ok", "permission-denied", "status-409", "unavailable"}

\* the error object a failing commit throws
ErrorOf(response) ==
    IF response = "status-409" THEN [code |-> "aborted", status |-> 409]
    ELSE [code |-> response, status |-> 0]

NoError == [code |-> "", status |-> 0]

\* applyMutation(mut), the remote store answering `response`.
\* [threw, err, remoteExpenses, remoteSplits]: a throw leaves the remote alone.
applyMutation(mut, response, rExpenses, rSplits) ==
    LET unchanged(threw, err) == [threw |-> threw, err |-> err,
                                  remoteExpenses |-> rExpenses, remoteSplits |-> rSplits]
    IN
    IF mut.entity_type # "expense" THEN unchanged(FALSE, NoError)
    \* doc(db, 'trips', payload.expense.trip_id, ...): payload.expense undefined
    ELSE IF "expense" \notin DOMAIN mut.payload
    THEN unchanged(TRUE, [code |-> "", status |-> 0])
    ELSE IF mut.action \in {"create", "update", "delete"} /\ response # "ok"
    THEN unchanged(TRUE, ErrorOf(response))
    ELSE CASE mut.action = "create" ->
                [threw |-> FALSE, err |-> NoError,
                 remoteExpenses |->
                    RemoteSet(rExpenses, mut.entity_id,
                              [docId |-> mut.entity_id, data |-> mut.payload.expense]),
                 remoteSplits |->
                    LET ps == mut.payload.splits
                        docs == {[docId |-> ps[i].id, parent |-> mut.entity_id,
                                  data |-> ps[i]] : i \in 1..Len(ps)}
                    IN {d \in rSplits : \A n \in docs : n.docId # d.docId} \cup docs]
           [] mut.action = "update" ->
                IF ~RemoteHas(rExpenses, mut.entity_id)
                THEN unchanged(TRUE, [code |-> "not-found", status |-> 0])
                ELSE [threw |-> FALSE, err |-> NoError,
                      remoteExpenses |->
                         {IF d.docId = mut.entity_id /\ "amount" \in DOMAIN mut.payload
                          THEN [d EXCEPT !.data.amount = mut.payload.amount]
                          ELSE d : d \in rExpenses},
                      remoteSplits |-> rSplits]
           [] mut.action = "delete" ->
                [threw |-> FALSE, err |-> NoError,
                 remoteExpenses |-> RemoteDelete(rExpenses, mut.entity_id),
                 remoteSplits |-> rSplits]
           [] OTHER -> unchanged(FALSE, NoError)

IsConflict(err) == err.code = "permission-denied" \/ err.status = 409

\* the doubling without the 60 s cap
NextBackoffUncapped(delay) == Max(2000, delay * 2)

\* Math.min(60000, Math.max(2000, backoffDelay * 2))
NextBackoff(delay) == Min(60000, Max(2000, delay * 2))

\* scheduleNextSync(delay): the old timer is cleared, a new one armed
scheduleNextSync(delay) == syncTimeout' = Timer(delay)

\* startSyncLoop without `if (this.syncTimeout) return`
startSyncLoopAgain ==
    /\ SYNC_AUTHORITY_ENABLED
    /\ scheduleNextSync(0)
    /\ UNCHANGED <<storeVars, remoteVars, idVars, backoffDelay, isSyncing, pass,
                   hydVars, pureVars, histVars>>

startSyncLoop ==
    /\ SYNC_AUTHORITY_ENABLED
    /\ IF syncTimeout # Null THEN UNCHANGED syncTimeout ELSE scheduleNextSync(0)
    /\ UNCHANGED <<storeVars, remoteVars, idVars, backoffDelay, isSyncing, pass,
                   hydVars, pureVars, histVars>>

stopSyncLoop ==
    /\ syncTimeout' = Null
    /\ UNCHANGED <<storeVars, remoteVars, idVars, backoffDelay, isSyncing, pass,
                   hydVars, pureVars, histVars>>

\* the pass goes on to the next mutation of its snapshot, or ends
AdvancePass ==
    IF pass.idx < Len(pass.queue)
    THEN /\ pass' = [pass EXCEPT !.phase = "apply", !.idx = pass.idx + 1]
         /\ UNCHANGED <<isSyncing, syncTimeout>>
    ELSE /\ pass' = IdlePass
         /\ isSyncing' = FALSE
         /\ scheduleNextSync(30000)

\* processQueue without `if (this.isSyncing) return`
TimerFireUnguarded ==
    /\ SYNC_AUTHORITY_ENABLED
    /\ syncTimeout.state = "armed"
    /\ LET queue == OrderBySequence(mutations)
       IN IF Len(queue) = 0
          THEN /\ backoffDelay' = 0
               /\ isSyncing' = FALSE
               /\ scheduleNextSync(30000)
               /\ UNCHANGED pass
          ELSE /\ isSyncing' = TRUE
               /\ pass' = [phase |-> "apply", queue |-> queue, idx |-> 1]
               /\ syncTimeout' = Fired
               /\ UNCHANGED backoffDelay
    /\ UNCHANGED <<storeVars, remoteVars, idVars, hydVars, pureVars, histVars>>

\* the timer fires and calls processQueue, up to its first remote call
TimerFireBody ==
    /\ SYNC_AUTHORITY_ENABLED
    /\ syncTimeout.state = "armed"
    /\ IF isSyncing
       THEN /\ syncTimeout' = Fired
            /\ UNCHANGED <<backoffDelay, isSyncing, pass>>
       ELSE LET queue == OrderBySequence(mutations)
            IN IF Len(queue) = 0
               THEN /\ backoffDelay' = 0
                    /\ isSyncing' = FALSE
                    /\ scheduleNextSync(30000)
                    /\ UNCHANGED pass
               ELSE /\ isSyncing' = TRUE
                    /\ pass' = [phase |-> "apply", queue |-> queue, idx |-> 1]
                    /\ syncTimeout' = Fired
                    /\ UNCHANGED backoffDelay
    /\ UNCHANGED <<storeVars, remoteVars, idVars, hydVars, pureVars, logVars>>

TimerFire == TimerFireBody /\ UNCHANGED streakVars

\* the same, counted: a pass over an empty queue ends any run of failures
TimerFireCounted ==
    /\ TimerFireBody
    /\ IF ~isSyncing /\ Len(OrderBySequence(mutations)) = 0
       THEN failedPasses' = 0 /\ failedSince' = 0
       ELSE UNCHANGED streakVars

CurrentMutation == pass.queue[pass.idx]

\* the remote store commits the batch of the current mutation
ApplyOk ==
    /\ pass.phase = "apply"
    /\ LET r == applyMutation(CurrentMutation, "ok", remoteExpenses, remoteSplits)
       IN /\ ~r.threw
          /\ remoteExpenses' = r.remoteExpenses
          /\ remoteSplits' = r.remoteSplits
    /\ pass' = [pass EXCEPT !.phase = "applied"]
    /\ applied' = applied \cup {[mutation_id |-> CurrentMutation.mutation_id,
                                  seq |-> CurrentMutation.client_sequence_number]}
    /\ reapplied' = IF \E a \in applied : a.mutation_id = CurrentMutation.mutation_id
                    THEN reapplied \cup {CurrentMutation.mutation_id} ELSE reapplied
    /\ UNCHANGED <<storeVars, remoteOps, failures, idVars, syncTimeout, backoffDelay,
                   isSyncing, hydVars, pureVars, streakVars>>

\* await applyMutation returns: localDb.mutations.delete(mut.mutation_id)
Ack ==
    /\ pass.phase = "applied"
    /\ mutations' = {m \in mutations : m.mutation_id # CurrentMutation.mutation_id}
    /\ pass' = [pass EXCEPT !.phase = "mark"]
    /\ UNCHANGED <<expenses, splits, remoteVars, idVars, syncTimeout, backoffDelay,
                   isSyncing, hydVars, pureVars, histVars>>

\* localDb.expenses.update(mut.entity_id, {sync_status: 'synced'}), backoff reset
MarkSyncedBody ==
    /\ pass.phase = "mark"
    /\ expenses' = ExpenseUpdate(expenses, CurrentMutation.entity_id, "synced")
    /\ backoffDelay' = 0
    /\ AdvancePass
    /\ UNCHANGED <<splits, mutations, remoteVars, idVars, hydVars, pureVars, logVars>>

MarkSynced == MarkSyncedBody /\ UNCHANGED streakVars

\* the same, counted: a successful application ends any run of failures
MarkSyncedCounted == MarkSyncedBody /\ failedPasses' = 0 /\ failedSince' = 0

\* applyMutation throws a conflict: localDb.mutations.update(..., conflicted)
ConflictBody(response) ==
    /\ pass.phase = "apply"
    /\ LET r == applyMutation(CurrentMutation, response, remoteExpenses, remoteSplits)
       IN r.threw /\ IsConflict(r.err)
    /\ mutations' = {IF m.mutation_id = CurrentMutation.mutation_id
                     THEN [m EXCEPT !.sync_status = "conflicted"] ELSE m : m \in mutations}
    /\ pass' = [pass EXCEPT !.phase = "conflictExp"]
    /\ UNCHANGED <<expenses, splits, remoteExpenses, remoteSplits, remoteOps, idVars,
                   syncTimeout, backoffDelay, isSyncing, hydVars, pureVars, histVars>>

\* TransientBody that also drops the mutation it could not apply
TransientBodyDropping(response) ==
    /\ pass.phase = "apply"
    /\ LET r == applyMutation(CurrentMutation, response, remoteExpenses, remoteSplits)
       IN r.threw /\ ~IsConflict(r.err)
    /\ backoffDelay' = NextBackoff(backoffDelay)
    /\ isSyncing' = FALSE
    /\ scheduleNextSync(NextBackoff(backoffDelay))
    /\ pass' = IdlePass
    /\ mutations' = {m \in mutations : m.mutation_id # CurrentMutation.mutation_id}
    /\ UNCHANGED <<expenses, splits, remoteExpenses, remoteSplits, remoteOps, idVars,
                   hydVars, pureVars, logVars>>

\* applyMutation throws anything else: back off and end the pass
TransientBody(response) ==
    /\ pass.phase = "apply"
    /\ LET r == applyMutation(CurrentMutation, response, remoteExpenses, remoteSplits)
       IN r.threw /\ ~IsConflict(r.err)
    /\ backoffDelay' = NextBackoff(backoffDelay)
    /\ isSyncing' = FALSE
    /\ scheduleNextSync(NextBackoff(backoffDelay))
    /\ pass' = IdlePass
    /\ UNCHANGED <<storeVars, remoteExpenses, remoteSplits, remoteOps, idVars,
                   hydVars, pureVars, logVars>>

ApplyConflict == (\E response \in Responses : ConflictBody(response)) /\ UNCHANGED failures

ApplyTransient ==
    /\ \E response \in Responses : TransientBody(response)
    /\ UNCHANGED <<failures, streakVars>>

\* the same, counted
ApplyTransientCounted ==
    /\ \E response \in Responses : TransientBody(response)
    /\ failedPasses' = Min(MaxStreak, failedPasses + 1)
    /\ failedSince' = Min(MaxStreak, failedSince + 1)
    /\ UNCHANGED failures

\* the remote store answers the well-formed write of the current mutation
\* with a failure; it does so MaxFailures times at most
RemoteBudget ==
    IF applyMutation(CurrentMutation, "ok", remoteExpenses, remoteSplits).threw
    THEN UNCHANGED failures       \* the throw is applyMutation's own
    ELSE failures < MaxFailures /\ failures' = failures + 1

RemoteRejects ==
    /\ pass.phase = "apply"
    /\ ConflictBody("permission-denied")
    /\ RemoteBudget

RemoteFails ==
    /\ pass.phase = "apply"
    /\ \E response \in Responses : TransientBody(response)
    /\ RemoteBudget
    /\ UNCHANGED streakVars

\* the conflict branch ending in `return` where the source has `continue`
ConflictExpenseReturning ==
    /\ pass.phase = "conflictExp"
    /\ expenses' = ExpenseUpdate(expenses, CurrentMutation.entity_id, "conflicted")
    /\ pass' = IdlePass
    /\ isSyncing' = FALSE
    /\ scheduleNextSync(30000)
    /\ UNCHANGED <<splits, mutations, remoteVars, idVars, backoffDelay, hydVars, pureVars, histVars>>

\* localDb.expenses.update(mut.entity_id, {sync_status: 'conflicted'}); continue
ConflictExpenseBody ==
    /\ pass.phase = "conflictExp"
    /\ expenses' = ExpenseUpdate(expenses, CurrentMutation.entity_id, "conflicted")
    /\ AdvancePass
    /\ UNCHANGED <<splits, mutations, remoteVars, idVars, backoffDelay, hydVars, pureVars, logVars>>

ConflictExpense == ConflictExpenseBody /\ UNCHANGED streakVars

\* the same, counted: a pass that ends here did not end in a transient failure
ConflictExpenseCounted ==
    /\ ConflictExpenseBody
    /\ failedPasses' = IF pass.idx < Len(pass.queue) THEN failedPasses ELSE 0
    /\ UNCHANGED failedSince

\* --------------------------------------------- syncService.ts: hydration
\* The listener is told of one document change at a time: what the remote
\* collection holds against what the listener has seen.
Changes ==
    {[type |-> "added", doc |-> d] : d \in {x \in remoteExpenses : ~RemoteHas(seen, x.docId)}}
    \cup {[type |-> "modified", doc |-> d] :
             d \in {x \in remoteExpenses : RemoteHas(seen, x.docId) /\ x \notin seen}}
    \cup {[type |-> "removed", doc |-> d] :
             d \in {x \in seen : ~RemoteHas(remoteExpenses, x.docId)}}

\* localDb.mutations.where('entity_id').equals(expenseId).first()
PendingFor(tbl, expenseId) == MutationsFor(tbl, expenseId) # {}

\* a put that merges: the local amount of an expense already stored is kept
hydratePutMerging(tbl, h) ==
    Put(tbl, h.id, [amount |-> IF h.id \in DOMAIN tbl THEN tbl[h.id].amount ELSE h.amount,
                    split_type |-> h.split_type,
                    sync_status |-> "synced"])

\* localDb.expenses.put({... sync_status: 'synced'}) of a remote document
hydratePut(tbl, h) ==
    Put(tbl, h.id, [amount |-> h.amount, split_type |-> h.split_type,
                    sync_status |-> "synced"])

\* unsub() of the listener the map holds for the trip, if it holds one
Unsubscribed == IF TripId \in unsubscribes THEN listeners - 1 ELSE listeners

initHydration ==
    /\ SYNC_AUTHORITY_ENABLED
    /\ unsubscribes' = {TripId}
    /\ listeners' = Unsubscribed + 1
    /\ seen' = {}
    /\ UNCHANGED <<storeVars, remoteVars, idVars, loopVars, hyd, pureVars, histVars>>

stopHydration ==
    /\ unsubscribes' = unsubscribes \ {TripId}
    /\ listeners' = Unsubscribed
    /\ seen' = {}
    /\ UNCHANGED <<storeVars, remoteVars, idVars, loopVars, hyd, pureVars, histVars>>

\* a change is delivered; the callback issues its read of the queue for the
\* expense id (the read sees the queue as it is now)
HydrateDeliver ==
    /\ TripId \in unsubscribes
    /\ hyd.phase = "idle"
    /\ \E c \in Changes :
         /\ seen' = IF c.type = "removed" THEN RemoteDelete(seen, c.doc.docId)
                    ELSE RemoteSet(seen, c.doc.docId, c.doc)
         /\ hyd' = [phase |-> "read", type |-> c.type, id |-> c.doc.docId,
                     amount |-> c.doc.data.amount,
                     split_type |-> c.doc.data.split_type,
                     pending |-> PendingFor(mutations, c.doc.docId)]
    /\ UNCHANGED <<storeVars, remoteVars, idVars, loopVars, unsubscribes, listeners, pureVars, histVars>>

\* the read returns: if (!pending) expenses.delete or expenses.put
HydrateWrite ==
    /\ hyd.phase = "read"
    /\ IF hyd.pending
       THEN /\ hyd' = IdleHyd
            /\ UNCHANGED expenses
       ELSE IF hyd.type = "removed"
       THEN /\ expenses' = ExpenseDelete(expenses, hyd.id)
            /\ hyd' = [hyd EXCEPT !.phase = "splits"]
       ELSE /\ expenses' = hydratePut(expenses, hyd)
            /\ hyd' = IdleHyd
    /\ UNCHANGED <<splits, mutations, remoteVars, idVars, loopVars, unsubscribes, listeners, seen,
                   pureVars, histVars>>

\* localDb.splits.where('expense_id').equals(expenseId).delete()
HydrateDeleteSplits ==
    /\ hyd.phase = "splits"
    /\ splits' = splits \ SplitsOf(splits, hyd.id)
    /\ hyd' = IdleHyd
    /\ UNCHANGED <<expenses, mutations, remoteVars, idVars, loopVars, unsubscribes, listeners, seen,
                   pureVars, histVars>>

\* ------------------------------------------------------------ environment
\* another device's queue writes an expense document (it creates an expense
\* of its own or overwrites one it can see)
OtherDeviceSet ==
    /\ remoteOps < MaxRemoteOps
    /\ \E docId \in ForeignIds \cup {d.docId : d \in remoteExpenses},
          amount \in InputAmounts :
         remoteExpenses' = RemoteSet(remoteExpenses, docId,
             [docId |-> docId,
              data |-> [id |-> docId, amount |-> amount, split_type |-> "equal",
                        sync_status |-> "pending"]])
    /\ remoteOps' = remoteOps + 1
    /\ UNCHANGED <<storeVars, remoteSplits, failures, idVars, loopVars, hydVars, pureVars, histVars>>

OtherDeviceDelete ==
    /\ remoteOps < MaxRemoteOps
    /\ \E d \in remoteExpenses : remoteExpenses' = RemoteDelete(remoteExpenses, d.docId)
    /\ remoteOps' = remoteOps + 1
    /\ UNCHANGED <<storeVars, remoteSplits, failures, idVars, loopVars, hydVars, pureVars, histVars>>

\* the page is closed or reloaded: IndexedDB and the remote store stay, the
\* SyncService instance and the module state of syncUtils are made anew
Crash ==
    /\ syncTimeout' = Null
    /\ backoffDelay' = 0
    /\ isSyncing' = FALSE
    /\ pass' = IdlePass
    /\ unsubscribes' = {}
    /\ listeners' = 0
    /\ seen' = {}
    /\ hyd' = IdleHyd
    /\ lastSequence' \in Clock
    /\ UNCHANGED <<storeVars, remoteVars, uuid, pureVars, histVars>>

\* ------------------------------------------------------- the specification
\* no call of calculateSplits or calculateBalances has returned
NotCalled == [called |-> FALSE, value |-> <<>>]

Returned(v) == [called |-> TRUE, value |-> v]

\* useState(null), useState([]), useState(true), useRef(null), useRef(true)
CalcIdle ==
    /\ ucPhase = "unmounted"
    /\ ucProps = <<>>
    /\ ucChanges = 0
    /\ workerRef = "null"
    /\ useWorkerRef = TRUE
    /\ summary = NotCalled
    /\ settlements = <<>>
    /\ isCalculating = TRUE
    /\ toWorker = <<>>
    /\ fromWorker = <<>>
    /\ workerErrors = 0
    /\ expected = <<>>
    /\ answered = FALSE

AuxIdle == seqLog = <<>> /\ CalcIdle

PureIdle ==
    /\ AuxIdle
    /\ seInput = <<>>
    /\ seResult = NotCalled
    /\ balInput = <<>>
    /\ balResult = NotCalled
    /\ stInput = <<>>
    /\ stResult = NotCalled

SyncIdle ==
    /\ expenses = <<>>
    /\ splits = {}
    /\ mutations = {}
    /\ remoteExpenses = {}
    /\ remoteSplits = {}
    /\ remoteOps = 0
    /\ failures = 0
    /\ uuid = 0
    /\ syncTimeout = Null
    /\ backoffDelay = 0
    /\ isSyncing = FALSE
    /\ pass = IdlePass
    /\ unsubscribes = {}
    /\ listeners = 0
    /\ seen = {}
    /\ hyd = IdleHyd
    /\ applied = {}
    /\ reapplied = {}
    /\ failedPasses = 0
    /\ failedSince = 0

Init ==
    /\ SyncIdle
    /\ lastSequence \in Clock
    /\ PureIdle

\* the mutation service and the drain loop
LoopNext ==
    \/ CreateCustomExpense
    \/ UpdateToTwoCents
    \/ DeleteExpense
    \/ startSyncLoop
    \/ stopSyncLoop
    \/ TimerFire
    \/ ApplyOk
    \/ Ack
    \/ MarkSynced
    \/ ApplyConflict
    \/ ConflictExpense
    \/ ApplyTransient

\* the mutation service, the drain loop and restarts
DrainNext == LoopNext \/ Crash

SpecDrain == Init /\ [][DrainNext]_vars

\* the mutation service and the drain loop of one session, the transient
\* failures counted
BackoffNext ==
    \/ CreateCustomExpense
    \/ UpdateToTwoCents
    \/ DeleteExpense
    \/ startSyncLoop
    \/ stopSyncLoop
    \/ TimerFireCounted
    \/ ApplyOk
    \/ Ack
    \/ MarkSyncedCounted
    \/ ApplyConflict
    \/ ConflictExpenseCounted
    \/ ApplyTransientCounted

SpecBackoff == Init /\ [][BackoffNext]_vars

\* one session of the whole engine: the mutation service, the drain loop,
\* hydration and other devices
Next ==
    \/ LoopNext
    \/ initHydration
    \/ stopHydration
    \/ HydrateDeliver
    \/ HydrateWrite
    \/ HydrateDeleteSplits
    \/ OtherDeviceSet
    \/ OtherDeviceDelete

Spec == Init /\ [][Next]_vars

\* the mutation service with every input, hydration, other devices, restarts
StoreNext ==
    \/ CreateExpense
    \/ UpdateExpense
    \/ DeleteExpense
    \/ initHydration
    \/ HydrateDeliver
    \/ HydrateWrite
    \/ HydrateDeleteSplits
    \/ OtherDeviceSet
    \/ OtherDeviceDelete
    \/ Crash

SpecStore == Init /\ [][StoreNext]_vars

\* the drain loop stays started, timers fire, remote calls return, and the
\* remote store fails a well-formed write MaxFailures times at most
LiveNext ==
    \/ CreateCustomExpense
    \/ UpdateToTwoCents
    \/ DeleteExpense
    \/ startSyncLoop
    \/ TimerFire
    \/ ApplyOk
    \/ Ack
    \/ MarkSynced
    \/ RemoteRejects
    \/ ConflictExpense
    \/ RemoteFails

SpecLive ==
    /\ Init
    /\ [][LiveNext]_vars
    /\ WF_vars(startSyncLoop)
    /\ WF_vars(TimerFire)
    /\ WF_vars(ApplyOk \/ RemoteRejects \/ RemoteFails)
    /\ WF_vars(Ack)
    /\ WF_vars(MarkSynced)
    /\ WF_vars(ConflictExpense)

\* ------------------------------------------------- calculateSplits, alone
\* the sequences over S of length 0..n
SeqsUpTo(S, n) == UNION {[1..k -> S] : k \in 0..n}

\* customSplits of a caller: one entry for each of the first k members
SplitEntries(values) ==
    UNION {{[i \in 1..k |-> [memberId |-> Members[i], amount |-> v[i].amount,
                              shares |-> v[i].shares]] : v \in [1..k -> values]} :
           k \in 0..Len(Members)}

SplitInputs ==
    LET rosters == {SubSeq(Members, 1, k) : k \in 0..Len(Members)}
        of(type, customs) ==
            {[totalAmount |-> t, splitType |-> type, involvedMemberIds |-> r,
              customSplits |-> c] : t \in 0..MaxTotal, r \in rosters, c \in customs}
    IN of("equal", {<<>>})
       \cup of("shares", SplitEntries({[amount |-> 0, shares |-> n] : n \in 0..MaxShares}))
       \cup of("custom", SplitEntries({[amount |-> a, shares |-> 0] : a \in 0..MaxTotal}))
       \cup of("percentage", {<<>>})

InitSplit ==
    /\ SyncIdle
    /\ AuxIdle
    /\ lastSequence = 0
    /\ seInput \in SplitInputs
    /\ seResult = NotCalled
    /\ balInput = <<>>
    /\ balResult = NotCalled
    /\ stInput = <<>>
    /\ stResult = NotCalled

CalculateSplits ==
    /\ ~seResult.called
    /\ seResult' = Returned(calculateSplits(seInput))
    /\ UNCHANGED <<syncVars, auxVars, seInput, balInput, balResult, stInput, stResult>>

SpecSplit == InitSplit /\ [][CalculateSplits]_vars

\* ----------------------------------------------- calculateBalances, alone
Payers == {"A", "Z"}                 \* Z is in no roster
Consumers == {"A", "B", "Z"}
BalanceAmounts == 1..2

\* expense k of a list has id k
ExpenseLists ==
    UNION {{[i \in 1..k |-> [id |-> i, paid_by |-> v[i].paid_by, amount |-> v[i].amount,
                              split_type |-> v[i].split_type]] :
              v \in [1..k -> [paid_by : Payers, amount : BalanceAmounts,
                              split_type : {"equal", "custom"}]]} :
           k \in 0..MaxBalanceItems}

SplitLists ==
    SeqsUpTo([expense_id : 1..MaxBalanceItems, member_id : Consumers,
              amount : BalanceAmounts], MaxBalanceItems)

InitBalance ==
    /\ SyncIdle
    /\ AuxIdle
    /\ lastSequence = 0
    /\ seInput = <<>>
    /\ seResult = NotCalled
    /\ balInput \in [expenses : ExpenseLists,
                      members : {SubSeq(Members, 1, k) : k \in 0..Len(Members)},
                      splits : SplitLists]
    /\ balResult = NotCalled
    /\ stInput = <<>>
    /\ stResult = NotCalled

CalculateBalances ==
    /\ ~balResult.called
    /\ balResult' = Returned(calculateBalances(balInput.expenses, balInput.members,
                                                balInput.splits))
    /\ UNCHANGED <<syncVars, auxVars, seInput, seResult, balInput, stInput, stResult>>

SpecBalance == InitBalance /\ [][CalculateBalances]_vars

\* --------------------------------------------- calculateSettlements, alone
SettleMembers == <<"A", "B", "C">>

\* Object.entries of a balance map of the first k members
BalanceMaps ==
    UNION {{[i \in 1..k |-> [id |-> SettleMembers[i], amount |-> v[i]]] :
              v \in [1..k -> (-MaxBalance)..MaxBalance]} :
           k \in 0..Len(SettleMembers)}

InitSettle ==
    /\ SyncIdle
    /\ AuxIdle
    /\ lastSequence = 0
    /\ seInput = <<>>
    /\ seResult = NotCalled
    /\ balInput = <<>>
    /\ balResult = NotCalled
    /\ stInput \in BalanceMaps
    /\ stResult = NotCalled

CalculateSettlements ==
    /\ ~stResult.called
    /\ stResult' = Returned(calculateSettlements(stInput))
    /\ UNCHANGED <<syncVars, auxVars, seInput, seResult, balInput, balResult, stInput>>

SpecSettle == InitSettle /\ [][CalculateSettlements]_vars

\* the sequence generator alone, the wall clock reading anything, in any order
SeqClock == 0..MaxSeqClock

\* `let lastSequence = Date.now()` at module load
InitSequence ==
    /\ SyncIdle
    /\ PureIdle
    /\ lastSequence \in SeqClock

GetSequenceNumber ==
    /\ Len(seqLog) < MaxSeqCalls
    /\ \E now \in SeqClock :
         /\ lastSequence' = getSequenceNumber(now, lastSequence)
         /\ seqLog' = Append(seqLog, [now |-> now, value |-> lastSequence'])
    /\ UNCHANGED <<storeVars, remoteVars, histVars, uuid, loopVars, hydVars, calcVars,
                   seInput, seResult, balInput, balResult, stInput, stResult>>

SpecSequence == InitSequence /\ [][GetSequenceNumber]_vars

\* ------------------------------------------ useCalculations and its worker
\* the renders: one expense paid by A and split equally between A and B
CalcInputs ==
    {[expenses |-> <<[id |-> 1, paid_by |-> Members[1], amount |-> fromCents(c),
                      split_type |-> "equal", type |-> "daily"]>>,
      members |-> Members, splits |-> <<>>] : c \in {2, 4, 6}}

\* Object.entries(summary.globalBalance) in money units; the keys of these
\* inputs are the roster, and their balances divide by the scale exactly
GlobalBalanceEntries(props) ==
    LET balances == calculateSummary(props.expenses, props.members, props.splits).globalBalance
    IN [i \in 1..Len(props.members) |->
          [id |-> props.members[i],
           amount |-> balances[props.members[i]] \div BalanceScale(props.members)]]

\* what the worker and the main thread both compute for a render
CalcResult(props) ==
    [summary |-> calculateSummary(props.expenses, props.members, props.splits),
     settlements |-> calculateSettlements(GlobalBalanceEntries(props))]

\* the second effect of useCalculations, run with the refs as they are then
InputsEffect(props, ref, useWorker) ==
    /\ expected' = CalcResult(props)
    /\ IF Len(props.expenses) = 0 /\ Len(props.members) = 0
       THEN /\ summary' = NotCalled
            /\ settlements' = <<>>
            /\ isCalculating' = FALSE
            /\ useWorkerRef' = useWorker
            /\ answered' = FALSE
            /\ UNCHANGED toWorker
       ELSE \E postThrows \in BOOLEAN :
              LET tryWorker == useWorker /\ ref = "worker"
                  useAfter == IF tryWorker /\ postThrows THEN FALSE ELSE useWorker
              IN /\ postThrows => tryWorker
                 /\ toWorker' = IF tryWorker /\ ~postThrows
                                THEN Append(toWorker, [payload |-> props,
                                                       answer |-> CalcResult(props)])
                                ELSE toWorker
                 /\ useWorkerRef' = useAfter
                 /\ IF ~useAfter \/ ref # "worker"
                    THEN /\ summary' = Returned(CalcResult(props).summary)
                         /\ settlements' = CalcResult(props).settlements
                         /\ isCalculating' = FALSE
                         /\ answered' = TRUE
                    ELSE /\ isCalculating' = TRUE
                         /\ answered' = FALSE
                         /\ UNCHANGED <<summary, settlements>>

\* first render: the effect that makes the worker, then the effect of the inputs
Mount ==
    /\ ucPhase = "unmounted"
    /\ ucPhase' = "mounted"
    /\ \E props \in CalcInputs, constructs \in BOOLEAN :
         /\ ucProps' = props
         /\ workerRef' = IF constructs THEN "worker" ELSE "null"
         /\ InputsEffect(props, workerRef', constructs)
    /\ UNCHANGED <<syncVars, seqLog, seInput, seResult, balInput, balResult, stInput, stResult,
                   ucChanges, fromWorker, workerErrors>>

\* a render with other expenses, members or splits
ChangeInputs ==
    /\ ucPhase = "mounted"
    /\ ucChanges < MaxChanges
    /\ ucChanges' = ucChanges + 1
    /\ \E props \in CalcInputs \ {ucProps} :
         /\ ucProps' = props
         /\ InputsEffect(props, workerRef, useWorkerRef)
    /\ UNCHANGED <<syncVars, seqLog, seInput, seResult, balInput, balResult, stInput, stResult,
                   ucPhase, workerRef, fromWorker, workerErrors>>

\* self.onmessage of the worker: CALCULATE in, RESULT out.  The RESULT is a
\* function of the payload alone and is kept with the message from the
\* moment it is posted.
WorkerCompute ==
    /\ toWorker # <<>>
    /\ fromWorker' = Append(fromWorker, Head(toWorker).answer)
    /\ toWorker' = Tail(toWorker)
    /\ UNCHANGED <<syncVars, seqLog, seInput, seResult, balInput, balResult, stInput, stResult,
                   ucPhase, ucProps, ucChanges, workerRef, useWorkerRef, summary,
                   settlements, isCalculating, workerErrors, expected, answered>>

\* workerRef.current.onmessage
DeliverResult ==
    /\ fromWorker # <<>>
    /\ summary' = Returned(Head(fromWorker).summary)
    /\ settlements' = Head(fromWorker).settlements
    /\ isCalculating' = FALSE
    /\ fromWorker' = Tail(fromWorker)
    /\ answered' = (answered \/ Head(fromWorker) = expected)
    /\ UNCHANGED <<syncVars, seqLog, seInput, seResult, balInput, balResult, stInput, stResult,
                   ucPhase, ucProps, ucChanges, workerRef, useWorkerRef, toWorker,
                   workerErrors, expected>>

\* the worker raises an error event (its script fails, or a handler throws):
\* workerRef.current.onerror runs; the requests the worker held are answered
\* or not
WorkerError ==
    /\ ucPhase = "mounted"
    /\ workerRef = "worker"
    /\ workerErrors < MaxWorkerErrors
    /\ workerErrors' = workerErrors + 1
    /\ useWorkerRef' = FALSE
    /\ isCalculating' = FALSE
    /\ \E lost \in BOOLEAN : toWorker' = IF lost THEN <<>> ELSE toWorker
    /\ UNCHANGED <<syncVars, seqLog, seInput, seResult, balInput, balResult, stInput, stResult,
                   ucPhase, ucProps, ucChanges, workerRef, summary, settlements, fromWorker,
                   expected, answered>>

WorkerNext == Mount \/ ChangeInputs \/ WorkerCompute \/ DeliverResult \/ WorkerError

\* effects run, the worker handles its messages, and so does the main thread
SpecWorker ==
    /\ Init
    /\ [][WorkerNext]_vars
    /\ WF_vars(Mount)
    /\ WF_vars(WorkerCompute)
    /\ WF_vars(DeliverResult)

\* ================================================================= claims
MutationIds(tbl) == {m.mutation_id : m \in tbl}

\* the step is a restart of the page
IsRestart ==
    /\ syncTimeout' = Null
    /\ pass' = IdlePass
    /\ unsubscribes' = {}
    /\ hyd' = IdleHyd
    /\ UNCHANGED <<storeVars, remoteVars>>

\* ------------------------------------------------------------------- C7
\* C7 (queue durability): a mutation record leaves the local queue only in
\* the step that follows the remote store's commit of that very mutation
\* (the pass is at "applied" on it); stopping the loop and restarting the
\* page leave the queue as it is, so a later start reads the same queue.
QueueDurability ==
    [][/\ \A m \in mutations :
             m.mutation_id \notin MutationIds(mutations') =>
                 /\ pass.phase = "applied"
                 /\ CurrentMutation.mutation_id = m.mutation_id
                 /\ \E a \in applied : a.mutation_id = m.mutation_id
       /\ (syncTimeout' = Null /\ syncTimeout # Null) => mutations' = mutations
      ]_vars

\* a mutation has been acknowledged and removed, an earlier-stopped loop
\* notwithstanding: the queue still holds the other mutation
QueueDurabilityWitness ==
    /\ pass.phase = "mark"
    /\ CurrentMutation.mutation_id \notin MutationIds(mutations)
    /\ mutations # {}
    /\ syncTimeout = Null

\* ------------------------------------------------------------------- C6
\* the remote store holds the expense of a create mutation
RemoteHoldsExpense(m) == \E d \in remoteExpenses : d.data = m.payload.expense

DrainOrdering ==
    [][(pass.phase = "apply" /\ pass'.phase = "applied")
          => \A a \in applied : a.seq <= CurrentMutation.client_sequence_number
      ]_vars

\* ------------------------------------------------------------------- C5
\* the mutation records the step has added to the queue
Enqueued == {m \in mutations' : m.mutation_id \notin MutationIds(mutations)}

SplitSumStored ==
    \A e \in DOMAIN expenses :
        LET stored == SplitsOf(splits, e)
        IN SetSum([s \in stored |-> toCents(s.amount)], stored) = toCents(expenses[e].amount)

\* ------------------------------------------------------------------- C3
\* the step delivers a change-feed event to the callback, which reads the queue
FeedEventRead == hyd.phase = "idle" /\ hyd'.phase = "read"

\* the step is the callback's write (or its decision not to write)
FeedEventWrite == hyd.phase = "read" /\ hyd' # hyd /\ ~IsRestart

\* what the callback does of an event on expense hyd.id, `queued` telling
\* whether the queue held a record for the expense when the callback read it
HydrationOutcome(queued) ==
    /\ FeedEventWrite =>
          IF queued
          THEN UNCHANGED <<expenses, splits>> /\ hyd' = IdleHyd
          ELSE IF hyd.type = "removed"
          THEN /\ hyd.id \notin DOMAIN expenses'
               /\ hyd'.phase = "splits"
          ELSE /\ hyd.id \in DOMAIN expenses'
               /\ expenses'[hyd.id] = [amount |-> hyd.amount, split_type |-> hyd.split_type,
                                       sync_status |-> "synced"]
    /\ (hyd.phase = "splits" /\ hyd' # hyd /\ ~IsRestart)
          => SplitsOf(splits', hyd.id) = {}

\* the event tells what the remote collection holds
FeedEventIsRemote ==
    FeedEventRead =>
        /\ UNCHANGED <<expenses, splits>>
        /\ IF hyd'.type = "removed"
           THEN ~RemoteHas(remoteExpenses, hyd'.id)
           ELSE \E d \in remoteExpenses :
                   /\ d.docId = hyd'.id
                   /\ d.data.amount = hyd'.amount

HydrationNeverClobbers ==
    [][(FeedEventWrite /\ expenses' # expenses) => MutationsFor(mutations, hyd.id) = {}
      ]_vars

\* ------------------------------------------------------------------- C9
SplitAmounts(result) == [i \in 1..Len(result.splits) |-> result.splits[i].amount]

\* C9 (split engine output guarantee): for every successful call of
\* calculateSplits the returned split amounts sum, in integer cents, to
\* totalAmount, and the reported remainder is 0.
SplitsSumToTotal ==
    (seResult.called /\ seResult.value.ok) =>
        /\ toCents(SeqSum(SplitAmounts(seResult.value))) = toCents(seInput.totalAmount)
        /\ seResult.value.remainder = 0

\* ------------------------------------------------------------------ C10
\* for each expense the split records referencing it sum to its amount
SplitsClosed(input) ==
    \A i \in 1..Len(input.expenses) :
        LET mine == SelectSeq(input.splits,
                              LAMBDA sp : sp.expense_id = input.expenses[i].id)
        IN SeqSum([k \in 1..Len(mine) |-> mine[k].amount]) = input.expenses[i].amount

\* C10 (balance zero-sum): when for each expense the split records
\* referencing it sum to the expense amount, the values of the map
\* calculateBalances returns sum to zero.
BalanceZeroSum ==
    (balResult.called /\ SplitsClosed(balInput)) =>
        SetSum(balResult.value, DOMAIN balResult.value) = 0

\* ------------------------------------------------------------------- C1
IsPending(id) == \E m \in mutations : m.mutation_id = id /\ m.sync_status = "pending"

\* C1 (eventual delivery): while the drain loop stays started and the remote
\* store fails only finitely often, every mutation enqueued by createExpense,
\* updateExpense or deleteExpense eventually leaves the pending state: it
\* is applied and its record removed, or it is marked conflicted.
EventualDelivery == \A id \in 1..MaxUuid : IsPending(id) ~> ~IsPending(id)

\* ------------------------------------------------------------------ C11
BalanceSum(balances) == SeqSum([k \in 1..Len(balances) |-> balances[k].amount])

\* the balance of entry k once every transaction has been applied: the
\* amount is added to the balance of `from` and taken from the balance of `to`
Settled(balances, transactions, k) ==
    balances[k].amount
    + SeqSum([t \in 1..Len(transactions) |->
                IF transactions[t].from = balances[k].id THEN transactions[t].amount ELSE 0])
    - SeqSum([t \in 1..Len(transactions) |->
                IF transactions[t].to = balances[k].id THEN transactions[t].amount ELSE 0])

\* C11 (settlement zeroes balances): for a balance map whose values sum to
\* zero, applying every returned transaction leaves every balance within
\* one cent of zero, and when every input balance is within one cent of
\* zero the result is empty.
SettlementZeroes ==
    (stResult.called /\ BalanceSum(stInput) = 0) =>
        /\ \A k \in 1..Len(stInput) : Abs(Settled(stInput, stResult.value, k)) <= EPSILON
        /\ (\A k \in 1..Len(stInput) : Abs(stInput[k].amount) <= EPSILON)
              => stResult.value = <<>>

\* ------------------------------------------------------------------ C12
\* C12 (conflict handling): when the remote store rejects the current
\* mutation with a conflict signal, the mutation record stays in the queue
\* with sync_status conflicted and the remote store is left alone; the next
\* step of the pass marks the local expense conflicted and goes on to the
\* next mutation of the pass, or, after the last one, ends the pass the
\* normal way (flag cleared, next pass scheduled in 30000 ms).
ConflictHandling ==
    [][/\ (pass.phase = "apply" /\ pass'.phase = "conflictExp") =>
             /\ \E m \in mutations' :
                   /\ m.mutation_id = CurrentMutation.mutation_id
                   /\ m.sync_status = "conflicted"
             /\ MutationIds(mutations') = MutationIds(mutations)
             /\ \A m \in mutations :
                   m.mutation_id # CurrentMutation.mutation_id => m \in mutations'
             /\ UNCHANGED <<remoteExpenses, remoteSplits, expenses, splits>>
             /\ pass'.idx = pass.idx
             /\ isSyncing'
       /\ (pass.phase = "conflictExp" /\ pass' # pass /\ ~IsRestart) =>
             /\ CurrentMutation.entity_id \in DOMAIN expenses =>
                   expenses'[CurrentMutation.entity_id].sync_status = "conflicted"
             /\ mutations' = mutations
             /\ IF pass.idx < Len(pass.queue)
                THEN /\ pass' = [pass EXCEPT !.phase = "apply", !.idx = pass.idx + 1]
                     /\ isSyncing'
                ELSE /\ pass' = IdlePass
                     /\ ~isSyncing'
                     /\ syncTimeout' = Timer(30000)
      ]_vars

\* the first mutation of a pass was rejected, it and its expense are
\* conflicted, and the pass is at the second mutation
ConflictHandlingWitness ==
    /\ pass.phase \in {"apply", "applied"}
    /\ pass.idx = 2
    /\ \E m \in mutations :
          /\ m.mutation_id = pass.queue[1].mutation_id
          /\ m.sync_status = "conflicted"
          /\ m.entity_id \in DOMAIN expenses
          /\ expenses[m.entity_id].sync_status = "conflicted"

\* ------------------------------------------------------------------ C13
\* C13 (conflicted is terminal): the array a drain pass has read holds only
\* mutations whose sync_status is pending; a mutation that is conflicted in
\* the queue stays in the queue as it is; and no pass sends a mutation that
\* is conflicted in the queue to the remote store.
ConflictedIsTerminal ==
    [][/\ \A i \in 1..Len(pass'.queue) : pass'.queue[i].sync_status = "pending"
       /\ \A m \in mutations : m.sync_status = "conflicted" => m \in mutations'
       /\ (pass.phase = "apply" /\ pass' # pass /\ ~IsRestart) =>
             ~ \E m \in mutations :
                   /\ m.mutation_id = CurrentMutation.mutation_id
                   /\ m.sync_status = "conflicted"
      ]_vars

\* ------------------------------------------------------------------ C14
\* the submission createExpense was called with, read back from the create
\* mutation it queued, passes the validation the claim lists: a positive
\* amount, and for a custom or shares split a non-empty list of
\* participants whose amounts sum to the total
SubmissionValid(m) ==
    LET expense == m.payload.expense
        custom_splits == m.payload.splits
    IN /\ expense.amount > 0
       /\ expense.split_type \in {"custom", "shares"} =>
             /\ Len(custom_splits) > 0
             /\ toCents(CustomSplitTotal(custom_splits)) = toCents(expense.amount)

\* C14 (validation failure persists nothing): createExpense writes to the
\* local tables only for a valid submission, so every step that queues a
\* create mutation (and with it stores the expense and its splits) is the
\* step of a valid submission; an invalid one leaves the tables as they were.
ValidationPersistsNothing ==
    [][\A m \in mutations' \ mutations : m.action = "create" => SubmissionValid(m)]_vars

\* ------------------------------------------------------------------ C15
\* the local half of C15: the step that queues a delete mutation leaves no
\* local expense and no local split of the deleted expense
LocalDeleteCascades ==
    \A m \in mutations' \ mutations :
        m.action = "delete" =>
            /\ m.entity_id \notin DOMAIN expenses'
            /\ SplitsOf(splits', m.entity_id) = {}

\* the remote half of C15: once a drain pass has called applyMutation on a
\* delete mutation, no split record of that expense is left in the remote store
RemoteDeleteCascades ==
    (pass.phase = "apply" /\ CurrentMutation.action = "delete"
        /\ pass' # pass /\ ~IsRestart) =>
            \A d \in remoteSplits' : d.parent # CurrentMutation.entity_id

\* C15 (cascading delete): deleting an expense removes all its split
\* records in the store the delete is applied to, the local tables when
\* deleteExpense commits and the remote store when the drain pass applies
\* the delete mutation.
CascadingDelete == [][LocalDeleteCascades /\ RemoteDeleteCascades]_vars

\* ------------------------------------------------------------------ C16
\* C16 (sequence numbers strictly monotonic per local store): a mutation
\* being enqueued carries a client_sequence_number strictly greater than
\* that of every mutation already in the queue, also when the process was
\* restarted between the two writes.
SequenceMonotonic ==
    [][\A later \in mutations' \ mutations : \A earlier \in mutations :
          later.client_sequence_number > earlier.client_sequence_number]_vars

\* ------------------------------------------------------------------ C17
\* C17 (sequence generator): within one process every call of
\* getSequenceNumber returns a value strictly greater than the value the
\* previous call returned, whatever the wall clock read at the two calls.
SequenceIncreases ==
    \A i \in 2..Len(seqLog) : seqLog[i].value > seqLog[i - 1].value

\* three calls: the second reads the clock the first read, the third reads
\* an earlier time
SequenceIncreasesWitness ==
    /\ Len(seqLog) = 3
    /\ seqLog[2].now = seqLog[1].now
    /\ seqLog[3].now < seqLog[2].now

\* ------------------------------------------------------------------ C18
\* C18 (worker fallback): every render of useCalculations with new
\* expenses, members or splits is eventually followed by the hook holding
\* calculateSummary and calculateSettlements of those inputs, whether the
\* worker is there, fails to construct, throws on postMessage or raises an
\* error while it holds a request.
WorkerFallback == (ucPhase = "mounted" /\ ~answered) ~> answered

\* ------------------------------------------------------------------ C19
\* C19 (start and stop are idempotent): startSyncLoop with the loop started
\* changes nothing, the timer and the pass in flight included; stopSyncLoop
\* with the loop stopped and stopHydration with no listener for the trip
\* change nothing; and after every initHydration one listener is
\* registered for the trip, and it is the one the map holds.
StartStopIdempotent ==
    [][/\ (syncTimeout # Null /\ startSyncLoop) => UNCHANGED vars
       /\ (syncTimeout = Null /\ stopSyncLoop) => UNCHANGED vars
       /\ (TripId \notin unsubscribes /\ stopHydration) => UNCHANGED vars
       /\ initHydration => (unsubscribes' = {TripId} /\ listeners' = 1)
      ]_vars

\* the loop is started and between two passes, and the listener of an
\* earlier initHydration, which has delivered a document, is subscribed
StartStopIdempotentWitness ==
    /\ syncTimeout = Timer(30000)
    /\ unsubscribes = {TripId}
    /\ listeners = 1
    /\ seen # {}

\* ------------------------------------------------------------------ C20
\* C20 (equal split order): an equal split of T cents among the n members
\* of involvedMemberIds succeeds and returns one split for each listed
\* member, in list order, and no other; with q = floor(T / n) and
\* r = T mod n the first r members receive q + 1 cents and the others q.
\* T is the total in cents as toCents reads it.
EqualSplitOrder ==
    (/\ seResult.called
     /\ seInput.splitType = "equal"
     /\ seInput.totalAmount > 0
     /\ Len(seInput.involvedMemberIds) > 0) =>
        LET ids == seInput.involvedMemberIds
            n == Len(ids)
            T == toCents(seInput.totalAmount)
            q == T \div n
            r == T % n
            result == seResult.value
        IN /\ result.ok
           /\ Len(result.splits) = n
           /\ \A i \in 1..n :
                /\ result.splits[i].member_id = ids[i]
                /\ result.splits[i].amount = fromCents(IF i <= r THEN q + 1 ELSE q)

\* three cents between A and B: A two cents, B one
EqualSplitOrderWitness ==
    /\ seResult.called
    /\ seInput.splitType = "equal"
    /\ seInput.involvedMemberIds = Members
    /\ seInput.totalAmount = fromCents(3)
    /\ SplitAmounts(seResult.value) = <<fromCents(2), fromCents(1)>>

\* ------------------------------------------------------------------ C21
\* the total weight of a shares split after the non-positive weights are dropped
PositiveWeight(customSplits) ==
    SeqSum([i \in 1..Len(customSplits) |->
              IF customSplits[i].shares > 0 THEN customSplits[i].shares ELSE 0])

\* the inputs for which the engine has to fail
MustFail(input) ==
    \/ input.totalAmount <= 0
    \/ Len(input.involvedMemberIds) = 0
    \/ input.splitType = "shares" /\ PositiveWeight(input.customSplits) <= 0
    \/ /\ input.splitType = "custom"
       /\ SeqSum([i \in 1..Len(input.customSplits) |-> input.customSplits[i].amount])
             # input.totalAmount

\* C21 (split engine errors): calculateSplits fails, with no split list,
\* when totalAmount <= 0, when involvedMemberIds is empty, when the weights
\* of a shares split that are positive sum to nothing, and when the amounts
\* of a custom split do not sum exactly to totalAmount; a failure never
\* comes with splits.
SplitEngineErrors ==
    seResult.called =>
        /\ MustFail(seInput) => ~seResult.value.ok
        /\ ~seResult.value.ok => seResult.value.splits = <<>>


\* ------------------------------------------------------------------ C22
\* the split records of an expense, as indices into the list of splits
RecordsOf(input, expense) ==
    {k \in 1..Len(input.splits) : input.splits[k].expense_id = expense.id}

\* what one expense takes from member m, in 1/BalanceScale of an amount unit:
\* the amount of m's split record (the last one, when m has several) when the
\* expense has any record; amount / |roster| for a roster member when it has
\* none and is of type equal; nothing otherwise
DebitOf(input, expense, m) ==
    LET recs == RecordsOf(input, expense)
        mine == {k \in recs : input.splits[k].member_id = m}
    IN IF recs # {}
       THEN IF mine = {} THEN 0
            ELSE LET last == CHOOSE k \in mine : \A j \in mine : j <= k
                 IN input.splits[last].amount * BalanceScale(input.members)
       ELSE IF expense.split_type = "equal" /\ m \in Range(input.members)
       THEN expense.amount
       ELSE 0

ExpectedBalance(input, m) ==
    SeqSum([i \in 1..Len(input.expenses) |->
              (IF input.expenses[i].paid_by = m
               THEN input.expenses[i].amount * BalanceScale(input.members) ELSE 0)
              - DebitOf(input, input.expenses[i], m)])

ExpectedKeys(input) ==
    Range(input.members)
    \cup {input.expenses[i].paid_by : i \in 1..Len(input.expenses)}
    \cup UNION {{input.splits[k].member_id : k \in RecordsOf(input, input.expenses[i])} :
                i \in 1..Len(input.expenses)}

\* C22 (balance debit rule): calculateBalances credits paid_by with the amount
\* of every expense, creating the key of a payer outside the roster; an
\* expense with split records debits exactly those records whatever its
\* split_type; without records an equal expense debits amount / |roster| from
\* every roster member and an expense of another type debits nobody.
BalanceDebitRule ==
    balResult.called =>
        /\ DOMAIN balResult.value = ExpectedKeys(balInput)
        /\ \A m \in DOMAIN balResult.value :
              balResult.value[m] = ExpectedBalance(balInput, m)

\* a payer outside the roster, an equal expense with a record, a custom
\* expense without one, over a roster of two
BalanceDebitRuleWitness ==
    /\ balResult.called
    /\ Len(balInput.members) = 2
    /\ Len(balInput.expenses) = 2
    /\ balInput.expenses[1].split_type = "equal"
    /\ balInput.expenses[1].paid_by = "Z"
    /\ RecordsOf(balInput, balInput.expenses[1]) # {}
    /\ balInput.expenses[2].split_type = "custom"
    /\ RecordsOf(balInput, balInput.expenses[2]) = {}
    /\ BalanceDebitRule


\* ------------------------------------------------------------------ C23
Owing(balances) == {k \in 1..Len(balances) : balances[k].amount < -EPSILON}
Owed(balances) == {k \in 1..Len(balances) : balances[k].amount > EPSILON}
EntryOf(balances, id) == CHOOSE k \in 1..Len(balances) : balances[k].id = id

\* one member on the `single` side, the others all on the `many` side, every
\* balance beyond epsilon, the whole summing to zero
OneAgainstMany(balances, single, many) ==
    /\ Cardinality(single) = 1
    /\ many # {}
    /\ single \cup many = 1..Len(balances)
    /\ BalanceSum(balances) = 0

\* the transactions pair the single member with each of the many, once, for
\* the balance of the latter, largest first, equal ones in input order
MatchedInOrder(balances, transactions, single, many, singleField, manyField) ==
    /\ Len(transactions) = Cardinality(many)
    /\ \A t \in 1..Len(transactions) :
          /\ \E s \in single : transactions[t][singleField] = balances[s].id
          /\ \E k \in many :
                /\ transactions[t][manyField] = balances[k].id
                /\ transactions[t].amount = Abs(balances[k].amount)
    /\ \A t, u \in 1..Len(transactions) :
          t < u =>
            /\ transactions[t][manyField] # transactions[u][manyField]
            /\ transactions[t].amount >= transactions[u].amount
            /\ transactions[t].amount = transactions[u].amount =>
                  EntryOf(balances, transactions[t][manyField])
                    < EntryOf(balances, transactions[u][manyField])

\* C23 (greedy matching order): with exactly one member owing and k members
\* owed, all beyond epsilon and summing to zero, calculateSettlements returns
\* k transactions, each from the debtor to one creditor for that creditor's
\* balance, in descending order of amount, creditors of equal balance in
\* input order; symmetrically for one creditor and several debtors.
GreedyMatchingOrder ==
    stResult.called =>
        /\ OneAgainstMany(stInput, Owing(stInput), Owed(stInput)) =>
              MatchedInOrder(stInput, stResult.value, Owing(stInput), Owed(stInput),
                             "from", "to")
        /\ OneAgainstMany(stInput, Owed(stInput), Owing(stInput)) =>
              MatchedInOrder(stInput, stResult.value, Owed(stInput), Owing(stInput),
                             "to", "from")


\* ------------------------------------------------------------------ C24
PassInFlight == pass.phase # "idle"

\* the armed timer runs its callback: the only step that leaves a fired handle
\* or, from an empty queue, re-arms the timer for 30000 ms
TimerRuns == syncTimeout.state = "armed" /\ TimerFire

\* C24 (single drain pass): a pass in flight holds the in-flight flag, and
\* processQueue invoked while a pass is in flight starts no second pass,
\* applies nothing to the remote store and changes no record of the local
\* store, whatever the order of timer firings, start/stop calls and remote
\* responses.
SingleDrainPass ==
    [][/\ PassInFlight => isSyncing
       /\ (PassInFlight /\ TimerRuns) =>
             /\ UNCHANGED <<pass, isSyncing, backoffDelay>>
             /\ UNCHANGED <<storeVars, remoteVars, histVars>>
             /\ syncTimeout' = Fired
      ]_vars

\* the loop was stopped and started again during a pass: the new timer is
\* armed while the pass is past its first mutation
SingleDrainPassWitness ==
    /\ PassInFlight
    /\ isSyncing
    /\ pass.idx = 2
    /\ syncTimeout = Timer(0)

\* ------------------------------------------------------------------ C25
RECURSIVE Pow2(_)
Pow2(n) == IF n = 0 THEN 1 ELSE 2 * Pow2(n - 1)

\* min(60000, 2000 * 2^(k-1))
ExpectedDelay(k) == Min(60000, 2000 * Pow2(k - 1))

\* the pass in flight ends in a transient failure
TransientStep == \E response \in Responses : TransientBody(response)

\* C25 as stated (backoff sequence by passes): after k passes in a row
\* that each ended in a transient failure, with no successful application
\* in between, the next pass is scheduled min(60000, 2000 * 2^(k-1)) ms
\* later, and that delay is between 2000 and 60000 ms.
BackoffByPasses ==
    [][TransientStep =>
          /\ backoffDelay' = ExpectedDelay(failedPasses')
          /\ syncTimeout' = Timer(backoffDelay')
          /\ backoffDelay' >= 2000 /\ backoffDelay' <= 60000
      ]_vars

\* C25 (backoff sequence): after the k-th transient failure since the last
\* successful application (passes in between that ended otherwise, with
\* conflicts only, do not restart the count), the next pass is scheduled
\* min(60000, 2000 * 2^(k-1)) ms later; after a successful application the
\* next transient failure schedules 2000 ms again; the delay after a
\* transient failure is between 2000 and 60000 ms.
BackoffSequence ==
    [][TransientStep =>
          /\ backoffDelay' = ExpectedDelay(failedSince')
          /\ syncTimeout' = Timer(backoffDelay')
          /\ backoffDelay' >= 2000 /\ backoffDelay' <= 60000
          /\ (backoffDelay = 0) => backoffDelay' = 2000
      ]_vars

\* the sixth transient failure in a row has scheduled the next pass 60 s later
BackoffSequenceWitness ==
    /\ failedSince = 6
    /\ failedPasses = 6
    /\ backoffDelay = 60000
    /\ syncTimeout = Timer(60000)


\* ------------------------------------------------------------------ C26
\* the positions of customSplits whose weight is positive, in order
Weighted(customSplits) ==
    SelectSeq([i \in 1..Len(customSplits) |-> i], LAMBDA i : customSplits[i].shares > 0)

FloorShare(input, i) ==
    (input.customSplits[i].shares * toCents(input.totalAmount))
        \div PositiveWeight(input.customSplits)

\* R: the cents the floors leave over
ShareRemainder(input) ==
    LET kept == Weighted(input.customSplits)
    IN toCents(input.totalAmount)
         - SeqSum([k \in 1..Len(kept) |-> FloorShare(input, kept[k])])

\* C26 (shares split): a shares split that succeeds returns one split for
\* each member of positive weight, in order, and none for the others; the
\* member at index i (from 0) receives floor(w_i * T / W) cents, and one
\* cent more exactly when i < R; R is at least 0 and smaller than the number
\* of members kept.
SharesSplit ==
    (seResult.called /\ seInput.splitType = "shares" /\ seResult.value.ok) =>
        LET kept == Weighted(seInput.customSplits)
            R == ShareRemainder(seInput)
            result == seResult.value.splits
        IN /\ Len(result) = Len(kept)
           /\ R >= 0
           /\ R < Len(kept)
           /\ \A k \in 1..Len(kept) :
                 /\ result[k].member_id = seInput.customSplits[kept[k]].memberId
                 /\ result[k].amount =
                       fromCents(FloorShare(seInput, kept[k]) + (IF k - 1 < R THEN 1 ELSE 0))

\* two members of weights 1 and 2 share an amount whose floors leave a cent over
SharesSplitWitness ==
    /\ seResult.called
    /\ seInput.splitType = "shares"
    /\ seResult.value.ok
    /\ Len(Weighted(seInput.customSplits)) = 2
    /\ seInput.customSplits[1].shares # seInput.customSplits[2].shares
    /\ ShareRemainder(seInput) = 1
    /\ SharesSplit


\* ------------------------------------------------------------------ C27
\* the pointers the loop passed through, the ones it exited with included
PointerTrace(balances) ==
    LET m == settlementMatch(balances) IN Append(m.iterations, <<m.i, m.j>>)

EveryIterationAdvances(balances) ==
    LET trace == PointerTrace(balances)
    IN \A k \in 1..(Len(trace) - 1) :
          /\ trace[k + 1][1] >= trace[k][1]
          /\ trace[k + 1][2] >= trace[k][2]
          /\ trace[k + 1] # trace[k]

StepBound(balances) == Cardinality(Owing(balances)) + Cardinality(Owed(balances)) - 1

\* C27 as stated (settlement step bound): every iteration of the matching
\* loop advances a pointer, and for any input the loop makes at most
\* |debtors| + |creditors| - 1 iterations and returns at most that many
\* transactions.
StepBoundAnyInput ==
    stResult.called =>
        /\ EveryIterationAdvances(stInput)
        /\ Len(settlementMatch(stInput).iterations) <= StepBound(stInput)
        /\ Len(stResult.value) <= StepBound(stInput)

\* C27 (settlement step bound): every iteration of the matching loop
\* advances a pointer; with at least one debtor or creditor the loop makes at
\* most |debtors| + |creditors| - 1 iterations and returns at most that many
\* transactions; with neither it makes no iteration and returns nothing.
SettlementStepBound ==
    stResult.called =>
        /\ EveryIterationAdvances(stInput)
        /\ Len(settlementMatch(stInput).iterations) <= Max(0, StepBound(stInput))
        /\ Len(stResult.value) <= Max(0, StepBound(stInput))

\* one debtor and two creditors: the loop makes two iterations, the bound
SettlementStepBoundWitness ==
    /\ stResult.called
    /\ Cardinality(Owing(stInput)) = 1
    /\ Cardinality(Owed(stInput)) = 2
    /\ Len(settlementMatch(stInput).iterations) = 2
    /\ Len(stResult.value) = 2


\* ------------------------------------------------------------------ C28
QueuedFor(id) == {m \in mutations : m.entity_id = id}

\* C28 (entity status matches the queue): an expense of the local store
\* whose sync_status is synced has no mutation record queued for its id.
StatusMatchesQueue ==
    \A id \in DOMAIN expenses :
        expenses[id].sync_status = "synced" => QueuedFor(id) = {}


\* ------------------------------------------------------------------ C29
\* syncTimeout is null exactly from stopSyncLoop (or from construction) until
\* the next startSyncLoop, as long as nothing else arms the timer

\* C29 (stop is effective): once stopSyncLoop has cleared the timer, no step
\* other than startSyncLoop arms a timer, the step that finishes the pass
\* that was in flight included, and no pass starts while the timer is
\* cleared.
StopIsEffective ==
    [][(syncTimeout = Null /\ ~startSyncLoop) =>
          /\ ~PassInFlight' => syncTimeout' = Null
          /\ ~PassInFlight => ~PassInFlight'
      ]_vars


\* ------------------------------------------------------------------ C30
BalanceOf(balances, id) == balances[EntryOf(balances, id)].amount

Paid(transactions, id) ==
    SeqSum([t \in 1..Len(transactions) |->
              IF transactions[t].from = id THEN transactions[t].amount ELSE 0])

Received(transactions, id) ==
    SeqSum([t \in 1..Len(transactions) |->
              IF transactions[t].to = id THEN transactions[t].amount ELSE 0])

\* C30 (settlement never overshoots): every returned transaction has a
\* positive amount, a payer whose input balance is negative and another
\* member, whose input balance is positive, as payee; no member pays more
\* in total than they owe or receives more in total than they are owed.
NeverOvershoots ==
    stResult.called =>
        /\ \A t \in 1..Len(stResult.value) :
              LET tx == stResult.value[t]
              IN /\ tx.amount > 0
                 /\ tx.from # tx.to
                 /\ BalanceOf(stInput, tx.from) < 0
                 /\ BalanceOf(stInput, tx.to) > 0
        /\ \A k \in 1..Len(stInput) :
              /\ Paid(stResult.value, stInput[k].id) <= Max(0, -stInput[k].amount)
              /\ Received(stResult.value, stInput[k].id) <= Max(0, stInput[k].amount)

=============================================================================
